---- MODULE Spec2Model ----
(***************************************************************************)
(* Model of the document tree (app/preprocessing/adobe/model.py) and of    *)
(* the prompt executor (app/llm.py): text cleanup, Section construction,   *)
(* structured metadata projection, the fetch_sections tool, the            *)
(* summarisation chain, the question chain and the cost tracking           *)
(* decorator.                                                              *)
(*                                                                         *)
(* Python strings are sequences of one-character strings, so that          *)
(* iteration over a str, regular expressions and lexicographic order are   *)
(* computed as Python computes them.                                       *)
(***************************************************************************)
EXTENDS Integers, Sequences, FiniteSets, TLC

VARIABLES
    \* InterimElement.text
    raw, cleaned,
    \* Section / Document construction
    built,
    \* DocumentStructuredMetadata
    tree, metadata,
    \* FetchSectionsTool._run on two orderings of the same ids
    store, askedIds, askedPerm, run1, run2,
    \* OpenAIPromptExecutor
    pc, cur, op, counters, invoked, cb, calls,
    response, fetched, idx, refine_io, refineLog, refineOuts, result,
    sections, summary_dict, summaryLog

cleanVars == <<raw, cleaned>>
ctorVars == <<built>>
projVars == <<tree, metadata>>
fetchVars == <<store, askedIds, askedPerm, run1, run2>>
execVars == <<pc, cur, op, counters, invoked, cb, calls, response, fetched, idx,
              refine_io, refineLog, refineOuts, result, sections, summary_dict,
              summaryLog>>
vars == <<cleanVars, ctorVars, projVars, fetchVars, execVars>>

(***************************************************************************)
(* Bounds                                                                  *)
(***************************************************************************)
MaxLen == 3
MaxBuilt == 2
MaxIds == 2
MaxCalls == 2
MaxSections == 2
MaxNodes == 3
MaxAsk == 3

(***************************************************************************)
(* Python values                                                           *)
(***************************************************************************)
\* Python None where a str (a sequence of characters) may stand
None == <<"None">>
\* Python None where an object (a record) may stand
NoneObj == [py |-> "None"]
Range(f) == {f[i] : i \in DOMAIN f}
SeqsUpTo(S, n) == UNION {[1..k -> S] : k \in 0..n}

\* code points of the characters the model uses (Python compares str by code point)
Ord(c) ==
    CASE c = "\n" -> 10
      [] c = " " -> 32
      [] c = "%" -> 37
      [] c = "." -> 46
      [] c = "0" -> 48
      [] c = "1" -> 49
      [] c = "2" -> 50
      [] c = "3" -> 51
      [] c = "4" -> 52
      [] c = "C" -> 67
      [] c = "I" -> 73
      [] c = "R" -> 82
      [] c = "_" -> 95
      [] OTHER -> 97

IsDigit(c) == c \in {"0", "1", "2", "3", "4"}
IsSpace(c) == c \in {" ", "\n"}
IsLeader(c) == c \in {"_", "."}

\* str.rstrip()
RECURSIVE RStrip(_)
RStrip(s) ==
    IF s = <<>> THEN s
    ELSE IF IsSpace(s[Len(s)]) THEN RStrip(SubSeq(s, 1, Len(s) - 1))
    ELSE s

\* str.lstrip()
RECURSIVE LStrip(_)
LStrip(s) ==
    IF s = <<>> THEN s
    ELSE IF IsSpace(s[1]) THEN LStrip(Tail(s))
    ELSE s

\* str.isnumeric() or str.isdigit(): non-empty and every character a digit
IsNumeric(s) == s # <<>> /\ \A i \in 1..Len(s) : IsDigit(s[i])

\* length of the run of `_` / `.` characters that starts at position i
RECURSIVE LeaderRun(_, _)
LeaderRun(s, i) ==
    IF i > Len(s) \/ ~IsLeader(s[i]) THEN 0 ELSE 1 + LeaderRun(s, i + 1)

\* re.sub(r"(\_|\.){3,}", "", s): leftmost, greedy, non-overlapping
RECURSIVE SubLeadersFrom(_, _, _)
SubLeadersFrom(s, i, least) ==
    IF i > Len(s) THEN <<>>
    ELSE IF LeaderRun(s, i) >= least
         THEN SubLeadersFrom(s, i + LeaderRun(s, i), least)
         ELSE <<s[i]>> \o SubLeadersFrom(s, i + 1, least)

SubLeaders(s) == SubLeadersFrom(s, 1, 3)

(***************************************************************************)
(* InterimElement.text                                                     *)
(***************************************************************************)
\* raw.get("Text")
RawGet(r, key) == IF key \in DOMAIN r THEN r[key] ELSE None

InterimElementTextNoStrip(r) ==
    LET got == RawGet(r, "Text") IN
    IF got = None \/ got = <<>> THEN None
    ELSE LET res == SubLeaders(got) IN
         IF IsNumeric(res) THEN None
         ELSE IF res = <<>> \/ res = <<"\n">> THEN None
         ELSE res

InterimElementText(r) ==
    LET got == RawGet(r, "Text") IN
    IF got = None \/ got = <<>> THEN None
    ELSE LET res == RStrip(SubLeaders(got)) IN
         IF IsNumeric(res) THEN None
         ELSE IF res = <<>> \/ res = <<"\n">> THEN None
         ELSE res

Chars == {"a", "1", ".", "_", " ", "\n"}
ChapterLine ==
    <<"C", "h", "a", "p", "t", "e", "r", " ", "1",
      ".", ".", ".", ".", ".", ".", ".", ".", ".", ".">>
ChapterOne == <<"C", "h", "a", "p", "t", "e", "r", " ", "1">>
DotLeaderLine == <<".", ".", ".", ".", ".", ".", ".", ".", ".", ".">>
FortyTwo == <<"4", "2">>
RevenueLine ==
    <<"R", "e", "v", "e", "n", "u", "e", " ", "g", "r", "e", "w", " ", "4", "2", "%">>
RawTexts == SeqsUpTo(Chars, MaxLen) \cup {ChapterLine, DotLeaderLine, FortyTwo, RevenueLine}
RawElements == {[Text |-> t, Page |-> 1] : t \in RawTexts} \cup {[Page |-> 1]}

NotRun == <<"not run">>

CleanInit == raw = [Page |-> 1] /\ cleaned = NotRun

ReadText ==
    /\ cleaned = NotRun
    /\ \E r \in RawElements :
        /\ raw' = r
        /\ cleaned' = InterimElementText(r)
    /\ UNCHANGED <<ctorVars, projVars, fetchVars, execVars>>

(***************************************************************************)
(* Section.title_clean, Section.starting_page                              *)
(***************************************************************************)
\* length of the prefix of s, from position i, that `(\d+\.?)+` matches
RECURSIVE NumberingFrom(_, _)
NumberingFrom(s, i) ==
    IF i > Len(s) THEN 0
    ELSE IF IsDigit(s[i]) THEN 1 + NumberingFrom(s, i + 1)
    ELSE IF s[i] = "." /\ i > 1 /\ IsDigit(s[i - 1]) THEN 1 + NumberingFrom(s, i + 1)
    ELSE 0

\* re.sub(r"^(\d+\.?)+", "", title).lstrip()
TitleClean(title) ==
    LStrip(SubSeq(title, NumberingFrom(title, 1) + 1, Len(title)))

\* sorted(set of int)
RECURSIVE SortedInts(_)
SortedInts(S) ==
    IF S = {} THEN <<>>
    ELSE LET m == CHOOSE x \in S : \A y \in S : x <= y
         IN <<m>> \o SortedInts(S \ {m})

(***************************************************************************)
(* Section.__init__, Document.__init__                                     *)
(***************************************************************************)
\* a keyword argument, or its default when it is not passed
Arg(args, key, default) == IF key \in DOMAIN args THEN args[key] ELSE default
\* `x if x else default`
OrDefault(args, key, empty) ==
    IF key \in DOMAIN args /\ args[key] # empty THEN args[key] ELSE empty

RootId == <<"r", "o", "o", "t">>

\* Section.__init__(self, id, title=None, pages=None, section_type=None, ...)
SectionInit(id, args) ==
    [id |-> <<>>,
     title |-> Arg(args, "title", None),
     pages |-> OrDefault(args, "pages", {}),
     section_type |-> Arg(args, "section_type", "None"),
     paragraphs |-> OrDefault(args, "paragraphs", <<>>),
     parent |-> IF "parent" \in DOMAIN args THEN [weakref |-> args.parent] ELSE NoneObj,
     subsections |-> OrDefault(args, "subsections", <<>>)]

\* Document.__init__: super().__init__("root", title, pages, "document", ...)
DocumentInit(args) ==
    SectionInit(RootId, [k \in (DOMAIN args) \cup {"section_type"} |->
                            IF k = "section_type" THEN "document" ELSE args[k]])

IdPool == {<<"1">>, <<"2">>, <<"1", ".", "1">>, <<"1", "0">>}
TitlePool == {<<"1", ".", "1", " ", "I">>, <<"I">>}
PagesPool == {{}, {2, 1}}

Restrict(f, D) == [k \in D |-> f[k]]
SectionArgs ==
    {Restrict([title |-> t, pages |-> p, section_type |-> "chapter"], D) :
        t \in TitlePool, p \in PagesPool, D \in SUBSET {"title", "pages", "section_type"}}
DocumentArgs ==
    {Restrict([title |-> t, pages |-> p], D) :
        t \in TitlePool, p \in PagesPool, D \in SUBSET {"title", "pages"}}

CtorInit == built = <<>>

NewSection ==
    \E id \in IdPool, args \in SectionArgs :
        /\ Len(built) < MaxBuilt
        /\ built' = Append(built, [call |-> "Section", id |-> id, args |-> args,
                                   obj |-> SectionInit(id, args)])
        /\ UNCHANGED <<cleanVars, projVars, fetchVars, execVars>>

NewDocument ==
    \E args \in DocumentArgs :
        /\ Len(built) < MaxBuilt
        /\ built' = Append(built, [call |-> "Document", id |-> RootId, args |-> args,
                                   obj |-> DocumentInit(args)])
        /\ UNCHANGED <<cleanVars, projVars, fetchVars, execVars>>

(***************************************************************************)
(* Document trees handed to the core: a root Document whose sections carry *)
(* the unique ids the tree builder assigned after construction.            *)
(***************************************************************************)
RECURSIVE Concat(_)
Concat(ss) == IF ss = <<>> THEN <<>> ELSE Head(ss) \o Concat(Tail(ss))

\* the shapes: node 0 is the root, par[i] < i is the owner of node i
TreeShapes ==
    UNION {{[n |-> n, par |-> p] : p \in {q \in [1..n -> 0..(n - 1)] : \A i \in 1..n : q[i] < i}} :
              n \in 0..MaxNodes}
Labellings(n) == {l \in [1..n -> IdPool] : \A i, j \in 1..n : i # j => l[i] # l[j]}

\* the nodes that node k owns, in stored order
ChildrenOf(d, k) ==
    LET RECURSIVE From(_)
        From(i) == IF i > d.n THEN <<>>
                   ELSE IF d.par[i] = k THEN <<i>> \o From(i + 1) ELSE From(i + 1)
    IN From(1)

RECURSIVE BuildSection(_, _)
BuildSection(d, k) ==
    LET kids == ChildrenOf(d, k)
        subs == [j \in 1..Len(kids) |-> BuildSection(d, kids[j])]
    IN IF k = 0
       THEN DocumentInit([title |-> <<"D">>, subsections |-> subs])
       ELSE [SectionInit(d.label[k], [title |-> d.label[k] \o <<" ", "T">>,
                                       pages |-> d.pages,
                                       section_type |-> "chapter",
                                       subsections |-> subs])
                EXCEPT !.id = d.label[k]]

(***************************************************************************)
(* DocumentStructuredMetadata._create_structured_metadata                  *)
(***************************************************************************)
Raise(e) == [raised |-> e]
IsRaised(v) == "raised" \in DOMAIN v
FirstRaised(vs) == vs[CHOOSE i \in 1..Len(vs) : IsRaised(vs[i]) /\ \A j \in 1..(i - 1) : ~IsRaised(vs[j])]
AnyRaised(vs) == \E i \in 1..Len(vs) : IsRaised(vs[i])

RECURSIVE CreateStructuredMetadataAlwaysSections(_, _)
CreateStructuredMetadataAlwaysSections(section, section_summaries) ==
    LET subsections == [i \in 1..Len(section.subsections) |->
                           CreateStructuredMetadataAlwaysSections(section.subsections[i],
                                                                  section_summaries)]
    IN IF section.section_type = "document"
       THEN IF AnyRaised(subsections) THEN FirstRaised(subsections)
            ELSE [document |-> [title |-> section.title, sections |-> subsections]]
       ELSE IF section.id \notin DOMAIN section_summaries THEN Raise("KeyError")
       ELSE IF AnyRaised(subsections) THEN FirstRaised(subsections)
       ELSE [title |-> TitleClean(section.title),
             id |-> section.id,
             pages |-> SortedInts(section.pages),
             summary |-> section_summaries[section.id].summary,
             sections |-> subsections]

RECURSIVE CreateStructuredMetadata(_, _)
CreateStructuredMetadata(section, section_summaries) ==
    LET subsections == [i \in 1..Len(section.subsections) |->
                           CreateStructuredMetadata(section.subsections[i], section_summaries)]
    IN IF section.section_type = "document"
       THEN IF AnyRaised(subsections) THEN FirstRaised(subsections)
            ELSE [document |-> [title |-> section.title, sections |-> subsections]]
       ELSE IF section.id \notin DOMAIN section_summaries THEN Raise("KeyError")
       ELSE IF AnyRaised(subsections) THEN FirstRaised(subsections)
       ELSE LET res == [title |-> TitleClean(section.title),
                        id |-> section.id,
                        pages |-> SortedInts(section.pages),
                        summary |-> section_summaries[section.id].summary]
            IN IF subsections # <<>> THEN [sections |-> subsections] @@ res ELSE res

SummaryPool == {None, <<"s">>}
\* the mappings projection reads: section id -> object with a `summary` attribute
SummaryObjects(ids) == [ids -> {[summary |-> x] : x \in SummaryPool}]

ProjInit == tree = [n |-> 0, par |-> <<>>, label |-> <<>>, pages |-> {}, summaries |-> <<>>] /\ metadata = NoneObj

Project ==
    /\ metadata = NoneObj
    /\ \E sh \in TreeShapes, pg \in PagesPool :
         \E l \in Labellings(sh.n) :
           \E drop \in {D \in SUBSET Range(l) : Cardinality(D) <= 1} :
             \E S \in SummaryObjects(Range(l) \ drop) :
               LET d == [n |-> sh.n, par |-> sh.par, label |-> l, pages |-> pg, summaries |-> S]
               IN /\ tree' = d
                  /\ metadata' = CreateStructuredMetadata(BuildSection(d, 0), S)
    /\ UNCHANGED <<cleanVars, ctorVars, fetchVars, execVars>>

(***************************************************************************)
(* FetchSectionsTool._run                                                  *)
(***************************************************************************)
Return(v) == [returned |-> v]
IsReturned(v) == "returned" \in DOMAIN v
\* a call that returned Python's None
ReturnNone == [returned_none |-> TRUE]

\* Python's `a < b` on str: lexicographic by code point
RECURSIVE StrLess(_, _)
StrLess(a, b) ==
    IF b = <<>> THEN FALSE
    ELSE IF a = <<>> THEN TRUE
    ELSE IF Ord(a[1]) # Ord(b[1]) THEN Ord(a[1]) < Ord(b[1])
    ELSE StrLess(Tail(a), Tail(b))

\* sorted(list of str): stable, ascending
RECURSIVE InsertSorted(_, _)
InsertSorted(x, srt) ==
    IF srt = <<>> THEN <<x>>
    ELSE IF StrLess(x, srt[1]) THEN <<x>> \o srt
    ELSE <<srt[1]>> \o InsertSorted(x, Tail(srt))
RECURSIVE SortedStrs(_)
SortedStrs(xs) ==
    IF xs = <<>> THEN <<>>
    ELSE InsertSorted(xs[Len(xs)], SortedStrs(SubSeq(xs, 1, Len(xs) - 1)))

SectionRecord(section) ==
    [title |-> TitleClean(section.title), id |-> section.id, text |-> section.text]

FetchSectionsRunUnsorted(section_summaries, section_ids) ==
    IF \E i \in 1..Len(section_ids) : section_ids[i] \notin DOMAIN section_summaries
    THEN Raise("KeyError")
    ELSE Return([i \in 1..Len(section_ids) |-> SectionRecord(section_summaries[section_ids[i]])])

FetchSectionsRunSkipUnknown(section_summaries, section_ids) ==
    LET ids == SelectSeq(SortedStrs(section_ids), LAMBDA x : x \in DOMAIN section_summaries)
    IN Return([i \in 1..Len(ids) |-> SectionRecord(section_summaries[ids[i]])])

FetchSectionsRun(section_summaries, section_ids) ==
    LET ids == SortedStrs(section_ids)
    IN IF \E i \in 1..Len(ids) : ids[i] \notin DOMAIN section_summaries
       THEN Raise("KeyError")
       ELSE Return([i \in 1..Len(ids) |-> SectionRecord(section_summaries[ids[i]])])

\* the mapping the tool reads: section id -> Section, keyed by the section's own id
StoredSection(id, text) ==
    [SectionInit(id, [title |-> id \o <<" ", "T">>, section_type |-> "chapter"])
        EXCEPT !.id = id] @@ [text |-> text]

SameItems(a, b) ==
    /\ Len(a) = Len(b)
    /\ \A x \in Range(a) \cup Range(b) :
          Cardinality({i \in 1..Len(a) : a[i] = x}) = Cardinality({i \in 1..Len(b) : b[i] = x})

FetchInit == store = <<>> /\ askedIds = <<>> /\ askedPerm = <<>> /\ run1 = NoneObj /\ run2 = NoneObj

FetchTwice ==
    /\ run1 = NoneObj
    /\ \E known \in SUBSET IdPool, ids \in SeqsUpTo(IdPool, MaxAsk) :
         \E perm \in {q \in [1..Len(ids) -> IdPool] : SameItems(q, ids)} :
           LET mapping == [id \in known |-> StoredSection(id, <<"x">>)]
           IN /\ store' = mapping
              /\ askedIds' = ids
              /\ askedPerm' = perm
              /\ run1' = FetchSectionsRun(mapping, ids)
              /\ run2' = FetchSectionsRun(mapping, perm)
    /\ UNCHANGED <<cleanVars, ctorVars, projVars, execVars>>

(***************************************************************************)
(* OpenAIPromptExecutor: __init__, track_costs, create_summaries_chain,    *)
(* generic_question_chain                                                  *)
(***************************************************************************)
Executors == {1, 2}

\* what one model invocation adds to the callback's totals
Usages ==
    {[successful_requests |-> 1, prompt_tokens |-> 3, completion_tokens |-> 2, total_cost |-> 5]}
ZeroUsage ==
    [successful_requests |-> 0, prompt_tokens |-> 0, completion_tokens |-> 0, total_cost |-> 0]
AddUsage(a, b) ==
    [successful_requests |-> a.successful_requests + b.successful_requests,
     prompt_tokens |-> a.prompt_tokens + b.prompt_tokens,
     completion_tokens |-> a.completion_tokens + b.completion_tokens,
     total_cost |-> a.total_cost + b.total_cost]

\* OpenAIPromptExecutor.__init__
ExecutorInit ==
    [n_prompt_tokens |-> 0, n_completion_tokens |-> 0, n_successful_requests |-> 0,
     total_cost |-> 0]

\* track_costs.wrapper, after func returned
TrackCosts(self, callback) ==
    [n_successful_requests |-> self.n_successful_requests + callback.successful_requests,
     n_prompt_tokens |-> self.n_prompt_tokens + callback.prompt_tokens,
     n_completion_tokens |-> self.n_completion_tokens + callback.completion_tokens,
     total_cost |-> self.total_cost + callback.total_cost]

RefineIO(answer, ids) == [intermediate_answer |-> answer, section_ids |-> ids]
\* RefineIO.json()
Json(v) == [json |-> v]
\* json.loads
JsonLoads(text) == IF "json" \in DOMAIN text THEN Return(text.json) ELSE Raise("JSONDecodeError")

ToolNames == {"fetch_sections"}

\* parse_function_output, with the tools list of generic_question_chain
ParseFunctionOutput(resp, section_summaries) ==
    IF resp.content = <<>> /\ "function_call" \in DOMAIN resp.additional_kwargs
    THEN LET fn_call == resp.additional_kwargs.function_call
             tool_args == JsonLoads(fn_call.arguments)
         IN IF IsRaised(tool_args) THEN tool_args
            ELSE IF fn_call.name \notin ToolNames THEN Raise("StopIteration")
            ELSE FetchSectionsRun(section_summaries, tool_args.returned.section_ids)
    ELSE Return(resp.content)

\* the inputs
Question == <<"q">>
KnownIds == {<<"2">>, <<"1", ".", "1">>}
AskIds == KnownIds \cup {<<"1", "0">>}
AnswerStore == [id \in KnownIds |-> StoredSection(id, <<"x">>)]
Contents == {<<>>, <<"I">>, <<"n", "o">>}
FunctionCalls ==
    {[name |-> "fetch_sections", arguments |-> Json([reasoning |-> <<"r">>, section_ids |-> ids])] :
        ids \in SeqsUpTo(AskIds, MaxIds)}
    \cup {[name |-> "fetch_pages", arguments |-> Json([reasoning |-> <<"r">>, section_ids |-> <<>>])],
          [name |-> "fetch_sections", arguments |-> [text |-> <<"{">>]]}
Responses ==
    {[content |-> c, additional_kwargs |-> [function_call |-> f]] : c \in Contents, f \in FunctionCalls}
    \cup {[content |-> c, additional_kwargs |-> <<>>] : c \in Contents}
RefineOutputs == {RefineIO(<<"a">>, <<>>), RefineIO(<<"b">>, <<<<"2">>>>)}
SummarizedSections ==
    {[id |-> <<"2">>, title |-> <<"2", " ", "T">>, text |-> <<>>],
     [id |-> <<"2">>, title |-> <<"2", " ", "T">>, text |-> <<"x">>],
     [id |-> <<"1", ".", "1">>, title |-> <<"1", ".", "1", " ", "T">>, text |-> <<"y">>]}

ExecInit ==
    /\ pc = "idle" /\ cur = 1 /\ op = "none" /\ calls = 0
    /\ counters = [e \in Executors |-> ExecutorInit]
    /\ invoked = [e \in Executors |-> ZeroUsage]
    /\ cb = ZeroUsage
    /\ response = NoneObj /\ fetched = <<>> /\ idx = 0
    /\ refine_io = NoneObj /\ refineLog = <<>> /\ refineOuts = <<>> /\ result = NoneObj
    /\ sections = <<>> /\ summary_dict = <<>> /\ summaryLog = <<>>

otherVars == <<cleanVars, ctorVars, projVars, fetchVars>>
Finished == pc \in {"idle", "returned", "raised"}

\* one model invocation: the callback sees its usage
Invoked(u) ==
    /\ cb' = AddUsage(cb, u)
    /\ invoked' = [invoked EXCEPT ![cur] = AddUsage(@, u)]

\* the exception leaves track_costs.wrapper before the counters are added to
Raised(e) ==
    /\ pc' = "raised"
    /\ result' = e
    /\ UNCHANGED counters

\* generic_question_chain is entered through track_costs.wrapper
CallAnswer ==
    /\ Finished /\ calls < MaxCalls
    /\ \E e \in Executors :
             /\ calls' = calls + 1
             /\ cur' = e /\ op' = "answer" /\ pc' = "select"
             /\ cb' = ZeroUsage
             /\ response' = NoneObj /\ fetched' = <<>> /\ idx' = 0
             /\ refine_io' = NoneObj /\ refineLog' = <<>> /\ refineOuts' = <<>>
             /\ result' = NoneObj
             /\ sections' = <<>> /\ summary_dict' = <<>> /\ summaryLog' = <<>>
             /\ UNCHANGED <<counters, invoked, otherVars>>

\* self.llm.invoke(...), parse_function_output, the initial RefineIO
Select ==
    \E resp \in Responses, u \in Usages :
        LET out == ParseFunctionOutput(resp, AnswerStore)
        IN /\ pc = "select"
           /\ Invoked(u)
           /\ response' = resp
           /\ IF IsRaised(out)
              THEN /\ Raised(out)
                   /\ UNCHANGED <<fetched, refine_io>>
              ELSE /\ fetched' = out.returned
                   /\ refine_io' = RefineIO(<<>>, <<>>)
                   /\ pc' = "refine"
                   /\ UNCHANGED <<result, counters>>
           /\ UNCHANGED <<cur, op, calls, idx, refineLog, refineOuts, sections,
                          summary_dict, summaryLog, otherVars>>

\* the model call itself fails, or its output does not conform to the schema
InvokeFails ==
    \E u \in Usages \cup {ZeroUsage} :
        /\ \/ pc = "select"
           \/ pc = "refine" /\ idx < Len(fetched)
           \/ pc = "summarize" /\ idx < Len(sections) /\ Len(sections[idx + 1].text) > 0
        /\ Invoked(u)
        /\ Raised(Raise("OutputParserException"))
        /\ UNCHANGED <<cur, op, calls, response, fetched, idx, refine_io, refineLog,
                       refineOuts, sections, summary_dict, summaryLog, otherVars>>

\* one iteration of `for section in fetched_sections`
RefineStepForgetful ==
    \E out \in RefineOutputs, u \in Usages :
        /\ pc = "refine" /\ idx < Len(fetched)
        /\ Invoked(u)
        /\ refineLog' = Append(refineLog, [refine_io |-> Json(RefineIO(<<>>, <<>>)),
                                            section |-> fetched[idx + 1],
                                            question |-> Question])
        /\ refineOuts' = Append(refineOuts, out)
        /\ refine_io' = out
        /\ idx' = idx + 1
        /\ UNCHANGED <<pc, cur, op, calls, counters, response, fetched, result, sections,
                       summary_dict, summaryLog, otherVars>>

RefineStep ==
    \E out \in RefineOutputs, u \in Usages :
        /\ pc = "refine" /\ idx < Len(fetched)
        /\ Invoked(u)
        /\ refineLog' = Append(refineLog, [refine_io |-> Json(refine_io),
                                            section |-> fetched[idx + 1],
                                            question |-> Question])
        /\ refineOuts' = Append(refineOuts, out)
        /\ refine_io' = out
        /\ idx' = idx + 1
        /\ UNCHANGED <<pc, cur, op, calls, counters, response, fetched, result, sections,
                       summary_dict, summaryLog, otherVars>>

\* `return refine_io`, then track_costs.wrapper adds the callback's totals
ReturnAnswer ==
    /\ pc = "refine" /\ idx = Len(fetched)
    /\ result' = Return(refine_io)
    /\ counters' = [counters EXCEPT ![cur] = TrackCosts(@, cb)]
    /\ pc' = "returned"
    /\ UNCHANGED <<cur, op, calls, invoked, cb, response, fetched, idx, refine_io,
                   refineLog, refineOuts, sections, summary_dict, summaryLog, otherVars>>

\* create_summaries_chain is entered through track_costs.wrapper
CallSummarize ==
    /\ Finished /\ calls < MaxCalls
    /\ \E e \in Executors, secs \in SeqsUpTo(SummarizedSections, MaxSections) :
             /\ calls' = calls + 1
             /\ cur' = e /\ op' = "summarize" /\ pc' = "summarize"
             /\ cb' = ZeroUsage
             /\ response' = NoneObj /\ fetched' = <<>> /\ idx' = 0
             /\ refine_io' = NoneObj /\ refineLog' = <<>> /\ refineOuts' = <<>>
             /\ result' = NoneObj
             /\ sections' = secs /\ summary_dict' = <<>> /\ summaryLog' = <<>>
             /\ UNCHANGED <<counters, invoked, otherVars>>

\* dict item assignment
DictSet(d, k, v) == [x \in (DOMAIN d) \cup {k} |-> IF x = k THEN v ELSE d[x]]

\* one iteration of `for section in sections`
SummarizeStepAlwaysInvoke ==
    LET section == sections[idx + 1]
    IN /\ pc = "summarize" /\ idx < Len(sections)
       /\ \E summary \in SummaryPool, u \in Usages :
             /\ Invoked(u)
             /\ summaryLog' = Append(summaryLog, [section_title |-> TitleClean(section.title),
                                                  section_text |-> section.text])
             /\ summary_dict' = DictSet(summary_dict, section.id, summary)
       /\ idx' = idx + 1
       /\ UNCHANGED <<pc, cur, op, calls, counters, response, fetched, refine_io, refineLog,
                      refineOuts, result, sections, otherVars>>

SummarizeStep ==
    LET section == sections[idx + 1]
    IN /\ pc = "summarize" /\ idx < Len(sections)
       /\ IF Len(section.text) > 0
          THEN \E summary \in SummaryPool, u \in Usages :
                 /\ Invoked(u)
                 /\ summaryLog' = Append(summaryLog, [section_title |-> TitleClean(section.title),
                                                      section_text |-> section.text])
                 /\ summary_dict' = DictSet(summary_dict, section.id, summary)
          ELSE /\ summary_dict' = DictSet(summary_dict, section.id, None)
               /\ UNCHANGED <<cb, invoked, summaryLog>>
       /\ idx' = idx + 1
       /\ UNCHANGED <<pc, cur, op, calls, counters, response, fetched, refine_io, refineLog,
                      refineOuts, result, sections, otherVars>>

\* the function body ends without a return statement: the call yields None
ReturnSummaries ==
    /\ pc = "summarize" /\ idx = Len(sections)
    /\ result' = ReturnNone
    /\ counters' = [counters EXCEPT ![cur] = TrackCosts(@, cb)]
    /\ pc' = "returned"
    /\ UNCHANGED <<cur, op, calls, invoked, cb, response, fetched, idx, refine_io,
                   refineLog, refineOuts, sections, summary_dict, summaryLog, otherVars>>

Init == CleanInit /\ CtorInit /\ ProjInit /\ FetchInit /\ ExecInit

Next ==
    \/ CallAnswer \/ Select \/ RefineStep \/ ReturnAnswer
    \/ CallSummarize \/ SummarizeStep \/ ReturnSummaries
    \/ InvokeFails

Spec == Init /\ [][Next]_vars
SpecClean == Init /\ [][ReadText]_vars
SpecCtor == Init /\ [][NewSection \/ NewDocument]_vars
SpecProject == Init /\ [][Project]_vars
SpecFetch == Init /\ [][FetchTwice]_vars

(***************************************************************************)
(* Properties                                                              *)
(***************************************************************************)
HasText == "Text" \in DOMAIN raw
HasLongRun(t) == \E i \in 1..(Len(t) - 2) : \A j \in i..(i + 2) : IsLeader(t[j])
NonLeaders(t) == SelectSeq(t, LAMBDA c : ~IsLeader(c))
IsPrefixThenSpace(a, b) ==
    /\ Len(a) <= Len(b)
    /\ SubSeq(b, 1, Len(a)) = a
    /\ \A i \in (Len(a) + 1)..Len(b) : IsSpace(b[i])

\* C9, as claimed: the cleanup of "Chapter 1.........." is absent, and so are those of
\* "42" and of ""; the cleanup of "Revenue grew 42%" is the line itself.
C9_ExamplesAsClaimed ==
    (cleaned # NotRun /\ HasText) =>
        /\ raw.Text = ChapterLine => cleaned = None
        /\ raw.Text = FortyTwo => cleaned = None
        /\ raw.Text = <<>> => cleaned = None
        /\ raw.Text = RevenueLine => cleaned = RevenueLine

\* C9, amended: InterimElement.text deletes the runs of 3 or more `_` / `.`, then strips
\* trailing whitespace, then discards a purely numeric or empty rest. The cleanup of
\* "Chapter 1.........." is "Chapter 1"; only a line made of leaders alone
\* ("..........") is absent, as are "42" and ""; "Revenue grew 42%" is kept as it is.
C9_Cleanup ==
    (cleaned # NotRun) =>
        /\ ~HasText => cleaned = None
        /\ HasText =>
            /\ raw.Text = ChapterLine => cleaned = ChapterOne
            /\ raw.Text = DotLeaderLine => cleaned = None
            /\ raw.Text = FortyTwo => cleaned = None
            /\ raw.Text = <<>> => cleaned = None
            /\ raw.Text = RevenueLine => cleaned = RevenueLine
            /\ cleaned # None =>
                /\ cleaned # <<>>
                /\ ~IsSpace(cleaned[Len(cleaned)])
                /\ ~IsNumeric(cleaned)
                /\ ~HasLongRun(cleaned)
                /\ IsPrefixThenSpace(NonLeaders(cleaned), NonLeaders(raw.Text))
            /\ cleaned = None =>
                \A i \in 1..Len(raw.Text) :
                    IsLeader(raw.Text[i]) \/ IsSpace(raw.Text[i]) \/ IsDigit(raw.Text[i])
            /\ (~HasLongRun(raw.Text) /\ RStrip(raw.Text) = raw.Text
                    /\ raw.Text # <<>> /\ ~IsNumeric(raw.Text)) => cleaned = raw.Text

C9_Witness == HasText /\ raw.Text = ChapterLine /\ cleaned = ChapterOne

\* C10: every Document has section_type "document" and the id "root", a Section
\* constructed with id x has id x, and sections constructed with distinct ids have
\* distinct ids.
C10_IdsAsConstructed ==
    /\ \A i \in 1..Len(built) :
          /\ built[i].obj.id = built[i].id
          /\ built[i].call = "Document" => built[i].obj.section_type = "document"
    /\ \A i, j \in 1..Len(built) :
          built[i].id # built[j].id => built[i].obj.id # built[j].obj.id

\* the nodes of a projected record, in pre-order
MetaSections(m) == IF "sections" \in DOMAIN m THEN m.sections ELSE <<>>
RECURSIVE MetaPreorder(_)
MetaPreorder(m) ==
    <<m>> \o Concat([i \in 1..Len(MetaSections(m)) |-> MetaPreorder(MetaSections(m)[i])])
\* the nodes of a tree, in pre-order
RECURSIVE NodePreorder(_, _)
NodePreorder(d, k) ==
    <<k>> \o Concat([i \in 1..Len(ChildrenOf(d, k)) |-> NodePreorder(d, ChildrenOf(d, k)[i])])
IdsOf(ms) == [i \in 1..Len(ms) |-> ms[i].id]
LabelsOf(d, ks) == [i \in 1..Len(ks) |-> d.label[ks[i]]]
Covered == Range(tree.label) \subseteq DOMAIN tree.summaries

\* C7: when the summaries cover every id of the tree, the projection holds every node
\* exactly once in pre-order, keeps every node's subsections in their stored order, and
\* omits the `sections` key exactly for the non-root nodes without subsections.
C7_Projection ==
    (metadata # NoneObj /\ Covered) =>
        /\ "document" \in DOMAIN metadata
        /\ "sections" \in DOMAIN metadata.document
        /\ IdsOf(metadata.document.sections) = LabelsOf(tree, ChildrenOf(tree, 0))
        /\ LET out == Concat([i \in 1..Len(metadata.document.sections) |->
                                 MetaPreorder(metadata.document.sections[i])])
               nodes == Tail(NodePreorder(tree, 0))
           IN /\ Len(out) = tree.n
              /\ IdsOf(out) = LabelsOf(tree, nodes)
              /\ \A i \in 1..Len(out) :
                    /\ ("sections" \in DOMAIN out[i]) <=> (ChildrenOf(tree, nodes[i]) # <<>>)
                    /\ IdsOf(MetaSections(out[i])) = LabelsOf(tree, ChildrenOf(tree, nodes[i]))

C7_Witness ==
    /\ metadata # NoneObj /\ Covered
    /\ "document" \in DOMAIN metadata
    /\ tree.n = 3 /\ tree.par = <<0, 1, 0>>
    /\ tree.label = <<<<"2">>, <<"1", "0">>, <<"1">>>>
    /\ "sections" \in DOMAIN metadata.document.sections[1]
    /\ "sections" \notin DOMAIN metadata.document.sections[2]

AllKnown == Range(askedIds) \subseteq DOMAIN store

\* C3: when every supplied id is a key of the mapping, _run returns one record per
\* supplied id, ordered by section id ascending, and a permutation of the same ids
\* gives the same sequence.
C3_FetchSorted ==
    (run1 # NoneObj /\ AllKnown) =>
        /\ IsReturned(run1)
        /\ SameItems(IdsOf(run1.returned), askedIds)
        /\ \A i, j \in 1..Len(run1.returned) :
              i < j => ~StrLess(run1.returned[j].id, run1.returned[i].id)
        /\ run2 = run1

C3_Witness ==
    /\ run1 # NoneObj /\ AllKnown
    /\ askedIds = <<<<"2">>, <<"1", ".", "1">>, <<"1", "0">>>>
    /\ askedPerm = <<<<"1", "0">>, <<"2">>, <<"1", ".", "1">>>>
    /\ IsReturned(run1)
    /\ IdsOf(run1.returned) = <<<<"1", ".", "1">>, <<"1", "0">>, <<"2">>>>

Answering == op = "answer" /\ response # NoneObj
HasFunctionCall == "function_call" \in DOMAIN response.additional_kwargs
DirectContent == ~HasFunctionCall \/ response.content # <<>>
InitialRefineIO == RefineIO(<<>>, <<>>)

\* C1: when the selection response carries direct textual content (no function call, or
\* non-empty content), the call returns RefineState{content, []} and runs no refine step.
C1_DirectContentIsTheAnswer ==
    (Answering /\ DirectContent) =>
        /\ refineLog = <<>>
        /\ pc = "returned" => result = Return(RefineIO(response.content, <<>>))

FetchCall == HasFunctionCall /\ response.content = <<>>
AskedOf(resp) == JsonLoads(resp.additional_kwargs.function_call.arguments).returned.section_ids

\* C2: after a fetch_sections call with empty content, the refine step runs once per
\* fetched record, in fetch order; the first step receives the empty RefineState, each
\* later step the previous step's output, and the call returns the last step's output
\* (the empty RefineState when nothing was fetched).
C2_RefineFold ==
    (Answering /\ FetchCall) =>
        /\ Len(refineLog) = idx /\ idx <= Len(fetched) /\ Len(refineOuts) = idx
        /\ pc \in {"refine", "returned"} =>
              /\ Len(fetched) = Len(AskedOf(response))
              /\ \A i, j \in 1..Len(fetched) : i < j => ~StrLess(fetched[j].id, fetched[i].id)
        /\ \A i \in 1..Len(refineLog) :
              /\ refineLog[i].section = fetched[i]
              /\ refineLog[i].question = Question
              /\ refineLog[i].refine_io =
                    Json(IF i = 1 THEN InitialRefineIO ELSE refineOuts[i - 1])
        /\ pc = "returned" =>
              /\ idx = Len(fetched)
              /\ result = Return(IF idx = 0 THEN InitialRefineIO ELSE refineOuts[idx])

C2_Witness ==
    /\ Answering /\ FetchCall /\ pc = "returned"
    /\ Len(fetched) = 2 /\ Len(refineLog) = 2
    /\ refineOuts[1] # InitialRefineIO
    /\ refineOuts[1] # refineOuts[2]
    /\ result = Return(refineOuts[2])

AsksUnknown ==
    /\ FetchCall
    /\ response.additional_kwargs.function_call.name = "fetch_sections"
    /\ IsReturned(JsonLoads(response.additional_kwargs.function_call.arguments))
    /\ \E i \in 1..Len(AskedOf(response)) : AskedOf(response)[i] \notin DOMAIN AnswerStore

\* C5: when a fetch_sections call names an id that is no key of the mapping, _run fails
\* with a KeyError and yields no records, and the answer call aborts before any refine
\* step and returns no RefineState.
C5_UnknownIdAborts ==
    (Answering /\ AsksUnknown) =>
        /\ pc = "raised"
        /\ result = Raise("KeyError")
        /\ fetched = <<>>
        /\ refineLog = <<>>

C5_Witness ==
    /\ Answering /\ AsksUnknown /\ pc = "raised"
    /\ AskedOf(response) = <<<<"2">>, <<"1", "0">>>>
    /\ result = Raise("KeyError")

\* C6: once a call has returned or aborted, each executor's counters equal the usage of
\* every model invocation made on it since its construction.
C6_CountersCoverEveryInvocation ==
    Finished => \A e \in Executors : counters[e] = TrackCosts(ExecutorInit, invoked[e])

\* C4: summarize returns the mapping, and every input section's id is one of its keys.
C4_SummarizeReturnsMapping ==
    (op = "summarize" /\ pc = "returned") =>
        /\ IsReturned(result)
        /\ \A i \in 1..Len(sections) : sections[i].id \in DOMAIN result.returned

Visited == SubSeq(sections, 1, idx)
SummaryInput(section) ==
    [section_title |-> TitleClean(section.title), section_text |-> section.text]

\* C8: summarize visits the sections in order and invokes the model once for each section
\* with non-empty text and never for one with empty text, for which it records an absent
\* summary under the section's id; summarize([]) invokes nothing and builds an empty mapping.
C8_SummarizeInvocations ==
    (op = "summarize") =>
        /\ idx <= Len(sections)
        /\ LET called == SelectSeq(Visited, LAMBDA x : x.text # <<>>)
           IN summaryLog = [i \in 1..Len(called) |-> SummaryInput(called[i])]
        /\ DOMAIN summary_dict = {Visited[i].id : i \in 1..idx}
        /\ \A i \in 1..idx :
              (Visited[i].text = <<>> /\ \A j \in (i + 1)..idx : Visited[j].id # Visited[i].id)
                  => summary_dict[Visited[i].id] = None
        /\ pc = "returned" => idx = Len(sections)
        /\ (pc = "returned" /\ sections = <<>>) => (summaryLog = <<>> /\ summary_dict = <<>>)

C8_Witness ==
    /\ op = "summarize" /\ pc = "returned"
    /\ Len(sections) = 2
    /\ sections[1].text = <<>> /\ sections[2].text # <<>>
    /\ sections[1].id # sections[2].id
    /\ Len(summaryLog) = 1
    /\ summary_dict[sections[1].id] = None
    /\ summary_dict[sections[2].id] # None

====
